---- MODULE Spec2Model ----
(***************************************************************************)
(* The question-answering loop of ollama-mcp-db, in its two variants:      *)
(*   variant "A"  src/src/index.ts      free text with a fenced SQL block  *)
(*   variant "B"  src/unnamed/part_001  JSON object with isVerified        *)
(* A text is a sequence of string tokens; a template literal is the        *)
(* concatenation (\o) of its fixed parts and its interpolated texts.       *)
(* One action is the code that runs between two awaits.                    *)
(***************************************************************************)
EXTENDS Integers, Sequences, FiniteSets, TLC

VARIABLES
    variant,       \* which program runs: "A" (index.ts) or "B" (part_001)
    pc,            \* where main/processQuestion is suspended
    chatHistory,   \* OllamaMCPHost.chatHistory
    question,      \* processQuestion's parameter
    attemptCount,  \* processQuestion's local attemptCount
    lastError,     \* processQuestion's local lastError (variant A); <<>> is undefined
    messages,      \* the message list of the model call in flight / last sent
    response,      \* the content of the first-stage response of this attempt
    sql,           \* the SQL text of the database call in flight / last sent
    answer,        \* what the last processQuestion call returned
    outcome,       \* "none", "returned" or "threw": how the last call ended
    nQuestions,    \* questions passed to processQuestion so far
    sessionCalls,  \* first-stage model calls made so far
    schemaCache,   \* OllamaMCPHost.schemaCache (variant A), in insertion order
    columnMetadata,\* OllamaMCPHost.columnMetadata (variant A)
    appended,      \* history variable: every turn ever given to addToHistory
    questionBase,  \* history variable: Len(appended) when the current question began
    attemptBase,   \* history variable: Len(appended) when the current attempt began
    toolReply,     \* history variable: how the last client.request for tools/call ended
    lineRead,      \* main: userInput, the line last read at the prompt
    resources,     \* connect: the resources of resources/list, each with what reading it gives
    cursor,        \* connect: the position of the for loop over the resources
    trace          \* history variable: the calls and replies of the current question

vars == <<variant, pc, chatHistory, question, attemptCount, lastError, messages,
          response, sql, answer, outcome, nQuestions, sessionCalls, schemaCache, columnMetadata,
          appended, questionBase, attemptBase, toolReply, lineRead, resources,
          cursor, trace>>

-----------------------------------------------------------------------------
(* Program constants *)

MAX_HISTORY_LENGTH == 20

MAX_RETRIES == 5

(* Bounds of the exploration *)

\* first-stage model calls of one explored session: the REPL is given a further
\* question only while a whole question (MAX_RETRIES + 1 attempts) still fits
MaxSessionCalls == 7

\* earlier, answered questions whose turns are already in chatHistory at Init
MaxPrior == 6

\* the longest listing of resources that connect is followed on
MaxResources == 3

-----------------------------------------------------------------------------
(* Texts *)

\* s.includes(sub) / "sub occurs in s"
Contains(text, sub) ==
    \E i \in 0..(Len(text) - Len(sub)) : SubSeq(text, i + 1, i + Len(sub)) = sub

Turn(role, content) == [role |-> role, content |-> content]

\* the three backquotes, sql and a newline that open a fenced SQL block
FenceOpen == "<fence>sql<nl>"

\* the newline and three backquotes that close it
FenceClose == "<nl><fence>"

\* String.prototype.trim on a token text: leading and trailing blanks go
RECURSIVE TrimLeft(_)
TrimLeft(text) ==
    IF text /= <<>> /\ Head(text) = " " THEN TrimLeft(Tail(text)) ELSE text

RECURSIVE TrimRight(_)
TrimRight(text) ==
    IF text /= <<>> /\ text[Len(text)] = " "
    THEN TrimRight(SubSeq(text, 1, Len(text) - 1))
    ELSE text

Trim(text) == TrimRight(TrimLeft(text))

\* a pattern that takes any opening fence for an sql fence
FenceStartsAnyLanguage(content) ==
    { i \in 1..Len(content) :
        /\ content[i] \in {"<fence>sql<nl>", "<fence><nl>"}
        /\ \E j \in (i + 1)..Len(content) : content[j] = "<nl><fence>" }

\* The regular expression of content.match: an opening sql fence, a lazy
\* capture of any characters, a closing fence. It matches at the first opening
\* fence that has a closing fence after it, up to the nearest such closing fence.
FenceStarts(content) ==
    { i \in 1..Len(content) :
        /\ content[i] = FenceOpen
        /\ \E j \in (i + 1)..Len(content) : content[j] = FenceClose }

Min(S) == CHOOSE x \in S : \A y \in S : x <= y

HasSqlMatch(content) == FenceStarts(content) /= {}

SqlMatchGroup(content) ==
    LET i == Min(FenceStarts(content))
        j == Min({ k \in (i + 1)..Len(content) : content[k] = FenceClose })
    IN  SubSeq(content, i + 1, j - 1)

-----------------------------------------------------------------------------
(* Results of a piece of code: it returns a value or throws an Error *)

Return(text) == [kind |-> "return", value |-> text]

Throw(message) == [kind |-> "throw", message |-> message]

\* error instanceof Error ? error.message : String(error)
ErrorMessage(result) == result.message

\* the catch at the outermost boundary of processQuestion
OuterCatchMissing(result) == result

OuterCatch(result) ==
    IF result.kind = "throw"
    THEN Return(<<"An error occurred: ">> \o ErrorMessage(result))
    ELSE result

\* reading a property of undefined
TypeErrorMessage == <<"Cannot read properties of undefined (reading 'content')">>

Apology(error) ==
    <<"I apologize, but I was unable to successfully query the database after ",
      ToString(MAX_RETRIES + 1),
      " attempts. The last error was: ">> \o error

Unexpected == <<"An unexpected error occurred while processing your question.">>

-----------------------------------------------------------------------------
(* Conversation history *)

LoopConditionOffByOne(count) == count < MAX_RETRIES

LoopConditionOneMore(count) == count <= MAX_RETRIES + 1

\* the condition of processQuestion's while loop
LoopCondition(count) == count <= MAX_RETRIES

\* the test of the catch block that gives up
IsLastAttempt(count) == count = MAX_RETRIES

RECURSIVE ShiftWhileOverLate(_)
ShiftWhileOverLate(history) ==
    IF Len(history) > MAX_HISTORY_LENGTH + 1
    THEN ShiftWhileOverLate(Tail(history))
    ELSE history

\* evicts from the newest end
RECURSIVE ShiftNewestWhileOver(_)
ShiftNewestWhileOver(history) ==
    IF Len(history) > MAX_HISTORY_LENGTH
    THEN ShiftNewestWhileOver(SubSeq(history, 1, Len(history) - 1))
    ELSE history

RECURSIVE ShiftWhileOver(_)
ShiftWhileOver(history) ==
    IF Len(history) > MAX_HISTORY_LENGTH
    THEN ShiftWhileOver(Tail(history))
    ELSE history

addToHistory(history, role, content) ==
    ShiftWhileOver(Append(history, Turn(role, content)))

\* consecutive addToHistory calls, one per turn of turns
RECURSIVE AddAll(_, _)
AddAll(history, turns) ==
    IF turns = <<>>
    THEN history
    ELSE AddAll(addToHistory(history, Head(turns).role, Head(turns).content),
                Tail(turns))

-----------------------------------------------------------------------------
(* Variant A: the system prompt *)

ColumnLine(tableName, column) ==
    LET metadata == { m \in columnMetadata :
                        m.table = tableName /\ m.column = column.column_name }
    IN  <<"- ", column.column_name, " (", column.data_type, ")">>
        \o (IF metadata = {}
            THEN <<>>
            ELSE LET m == CHOOSE x \in metadata : TRUE
                 IN  <<": ", m.description>>
                     \o (IF m.hasForeignKey
                         THEN <<" [References ", m.fkTable, ".", m.fkColumn, "]">>
                         ELSE <<>>))
        \o <<"<nl>">>

RECURSIVE ColumnLines(_, _)
ColumnLines(tableName, columns) ==
    IF columns = <<>>
    THEN <<>>
    ELSE ColumnLine(tableName, Head(columns)) \o ColumnLines(tableName, Tail(columns))

RECURSIVE TableBlocks(_)
TableBlocks(cache) ==
    IF cache = <<>>
    THEN <<>>
    ELSE <<"Table: ", Head(cache).table, "<nl>", "Columns:<nl>">>
         \o ColumnLines(Head(cache).table, Head(cache).columns)
         \o <<"<nl>">>
         \o TableBlocks(Tail(cache))

QUERY_GUIDELINES == "When analyzing questions: ... Only use SELECT statements ..."

buildSystemPrompt(includeErrorContext) ==
    <<"You are a data analyst assistant. You have access to a PostgreSQL database with these tables:<nl><nl>">>
    \o TableBlocks(schemaCache)
    \o <<"<nl>Query Guidelines:<nl>", QUERY_GUIDELINES>>
    \o (IF includeErrorContext /= <<>>
        THEN <<"<nl>Previous Error Context: ">> \o includeErrorContext
             \o <<"<nl>", "Please revise your approach and try a different query strategy.<nl>">>
        ELSE <<>>)

\* the message list of an attempt (index.ts)
MessagesA(history, q, error) ==
    <<Turn("system", buildSystemPrompt(error))>> \o history \o <<Turn("user", q)>>

ResultsPromptWithoutResult(queryResult) ==
    <<"Here are the results of the SQL query: ">>
    \o <<"<nl><nl>Please analyze these results and provide a clear summary.">>

ResultsPromptA(queryResult) ==
    <<"Here are the results of the SQL query: ">> \o queryResult
    \o <<"<nl><nl>Please analyze these results and provide a clear summary.">>

-----------------------------------------------------------------------------
(* Variant B: prompts, the JSON response and its formatting *)

SYSTEM_PROMPT == "You have access to a PostgreSQL database. ..."

USER_PROMPT == "I have a database with the following tables: ... I have a question: "

\* a message list without the history
MessagesBWithoutHistory(history, q) ==
    <<Turn("system", <<SYSTEM_PROMPT>>), Turn("user", <<USER_PROMPT>> \o q)>>

\* the message list of an attempt (part_001)
MessagesB(history, q) ==
    <<Turn("system", <<SYSTEM_PROMPT>>), Turn("user", <<USER_PROMPT>> \o q)>> \o history

\* A JSON document is the token text
\*   { "sqlQuery" <string> "isVerified" <true|false> "answerSummary" <string> }
\* JSON.parse throws a SyntaxError on a text that is not a JSON document.
IsJson(content) ==
    /\ Len(content) >= 2
    /\ content[1] = "{"
    /\ content[Len(content)] = "}"
    /\ Len(content) % 2 = 0

JsonKeys(content) == { content[i] : i \in { k \in 2..(Len(content) - 1) : k % 2 = 0 } }

JsonValue(content, key) ==
    content[(CHOOSE i \in 2..(Len(content) - 1) : i % 2 = 0 /\ content[i] = key) + 1]

\* a schema that asks for the three fields and not for their types
SchemaOkAnyType(content) ==
    {"sqlQuery", "isVerified", "answerSummary"} \subseteq JsonKeys(content)

\* SqlJsonContent.parse: the three fields are there, isVerified is a boolean
SchemaOk(content) ==
    /\ {"sqlQuery", "isVerified", "answerSummary"} \subseteq JsonKeys(content)
    /\ JsonValue(content, "isVerified") \in {"true", "false"}

ParseError(content) ==
    IF ~IsJson(content) THEN "SyntaxError: Unexpected token" ELSE "ZodError: invalid"

Parses(content) == IsJson(content) /\ SchemaOk(content)

\* a response object that always counts as verified
JsonSqlModelResponseAlwaysVerified(content) ==
    [sqlQuery      |-> <<JsonValue(content, "sqlQuery")>>,
     isVerified    |-> TRUE,
     answerSummary |-> <<JsonValue(content, "answerSummary")>>]

\* the object that queryModelJson returns for a content that parses
JsonSqlModelResponse(content) ==
    [sqlQuery      |-> <<JsonValue(content, "sqlQuery")>>,
     isVerified    |-> JsonValue(content, "isVerified") = "true",
     answerSummary |-> <<JsonValue(content, "answerSummary")>>]

CouldNotExtract(content) ==
    <<"Could not extract SQL from this response: ">> \o content
    \o <<" because of error: ", ParseError(content)>>

getFormattedAnswerInverted(r) ==
    LET formattedAnswer ==
            r.answerSummary
            \o <<".<nl><nl>    This was obtained using the following query:<nl><nl>    ",
                 "<fence>sql<nl>    ">>
            \o r.sqlQuery \o <<"<nl>    <fence><nl>    ">>
    IN  IF ~r.isVerified
        THEN formattedAnswer
        ELSE formattedAnswer \o <<" (Answer is not verified.)">>

getFormattedAnswer(r) ==
    LET formattedAnswer ==
            r.answerSummary
            \o <<".<nl><nl>    This was obtained using the following query:<nl><nl>    ",
                 "<fence>sql<nl>    ">>
            \o r.sqlQuery \o <<"<nl>    <fence><nl>    ">>
    IN  IF r.isVerified
        THEN formattedAnswer
        ELSE formattedAnswer \o <<" (Answer is not verified.)">>

ResultsTurnB(queryResult) ==
    <<"Here are the results of the SQL query: ">> \o queryResult

-----------------------------------------------------------------------------
(* The database tool *)

\* executeQuery on the outcome of client.request: the request throws, or it
\* returns a response whose content[0].text is there and non-empty, or not
executeQuery(reply) ==
    IF reply.kind = "throw"
    THEN reply
    ELSE IF ~reply.value.hasText \/ reply.value.text = <<>>
         THEN Throw(<<"No text content received from query">>)
         ELSE Return(reply.value.text)

-----------------------------------------------------------------------------
(* What the collaborators can answer *)

ChatResponse(content) == [hasMessage |-> TRUE, content |-> content]

\* a response object without a message
NoMessage == [hasMessage |-> FALSE, content |-> <<>>]

\* prose with a fenced block that is not an sql block
ProseReply ==
    <<"The artist table lists the performers. Try:", "<fence><nl>", "psql chinook",
      FenceClose>>

FencedReply ==
    <<"I will look it up.", FenceOpen, " ", "SELECT * FROM artist LIMIT 5;", " ",
      FenceClose, "Done.">>

InterpretationReply == <<"There are five artists.">>

JsonReply(isVerified) ==
    <<"{", "sqlQuery", "SELECT 1", "isVerified", isVerified,
      "answerSummary", "ok", "}">>

NotJsonReply == <<"Sure, here is the query: SELECT 1">>

MissingFieldReply == <<"{", "sqlQuery", "SELECT 1", "}">>

\* isVerified is a JSON string, not a boolean
WrongTypeReply == JsonReply("<yes>")

\* a statement that is not a SELECT statement
UnsafeSql == "DELETE FROM artist;"

UnsafeFencedReply == <<"I will clean up.", FenceOpen, UnsafeSql, FenceClose>>

UnsafeJsonReply ==
    <<"{", "sqlQuery", UnsafeSql, "isVerified", "false", "answerSummary", "ok", "}">>

ChatFailure == Throw(<<"fetch failed">>)

\* the response with which the model drafts a query: a SELECT statement for the
\* question q1, a DELETE statement for any other question
DraftReply ==
    IF variant = "A"
    THEN (IF question = <<"q1">> THEN FencedReply ELSE UnsafeFencedReply)
    ELSE (IF question = <<"q1">> THEN JsonReply("false") ELSE UnsafeJsonReply)

\* ollama.chat for the first stage of an attempt
ChatOutcomes ==
    IF variant = "A"
    THEN { Return(ChatResponse(ProseReply)), Return(ChatResponse(DraftReply)),
           Return(NoMessage), ChatFailure }
    ELSE { Return(ChatResponse(JsonReply("true"))), Return(ChatResponse(DraftReply)),
           Return(ChatResponse(NotJsonReply)), Return(ChatResponse(MissingFieldReply)),
           Return(ChatResponse(WrongTypeReply)),
           Return(NoMessage), ChatFailure }

\* ollama.chat for the interpretation of the results (variant A)
InterpretOutcomes == { Return(ChatResponse(InterpretationReply)), ChatFailure }

ToolResponse(text) == [hasText |-> TRUE, isError |-> FALSE, text |-> text]

\* a response without content[0].text
NoTextResponse == [hasText |-> FALSE, isError |-> FALSE, text |-> <<>>]

\* a response that reports a tool-level error: isError with the error as its text
ToolErrorResponse(text) == [hasText |-> TRUE, isError |-> TRUE, text |-> text]

\* client.request for tools/call: the service answers a statement that reads with
\* rows, with no text, or the request is rejected; to a statement that writes it
\* reports an error in its response, answers with no text, or the request is rejected
QueryOutcomes ==
    IF sql = <<UnsafeSql>>
    THEN { Return(ToolErrorResponse(<<"ERROR: cannot execute DELETE in a read-only transaction">>)),
           Return(NoTextResponse),
           Throw(<<"MCP error: cannot execute DELETE in a read-only transaction">>) }
    ELSE { Return(ToolResponse(<<"[{...}]">>)),
           Return(NoTextResponse),
           Throw(<<"MCP error: relation does not exist">>) }

\* what the user can type at the prompt
\* (a line that holds /exit among other words is a question like any other to
\* index.ts, where the line /exit stands for it)
Inputs ==
    IF variant = "A"
    THEN { <<"q1">>, <<"EXIT">>, <<"/exit">> }
    ELSE { <<"q1">>, <<"EXIT">>, <<"/exit">>, <<"what does ", "/exit", " do?">> }

LowerCaseToken(t) == IF t = "EXIT" THEN "exit" ELSE t

toLowerCase(text) == [i \in 1..Len(text) |-> LowerCaseToken(text[i])]

\* the test of main's loop for the sentinel
IsSentinel(userInput) ==
    IF variant = "A"
    THEN toLowerCase(userInput) = <<"exit">>
    ELSE Contains(toLowerCase(userInput), <<"/exit">>)

-----------------------------------------------------------------------------
(* History variables *)

Event(op, dir, ok, text) == [op |-> op, dir |-> dir, ok |-> ok, text |-> text]

Call(op) == Event(op, "call", TRUE, <<>>)

\* the reply to a call: ok with the text the code reads from it, or the
\* message of the Error the call ends with
Reply(op, result) ==
    IF result.kind = "return"
    THEN Event(op, "reply", TRUE, result.value)
    ELSE Event(op, "reply", FALSE, result.message)

Count(op, dir) == Cardinality({ i \in 1..Len(trace) : trace[i].op = op /\ trace[i].dir = dir })

modelCalls == Count("chat", "call")

dbCalls == Count("query", "call")

interpretCalls == Count("interpret", "call")

-----------------------------------------------------------------------------
(* What connect reads (index.ts) *)

\* a resource of resources/list: its uri as path segments, and how
\* resources/read for it ends
Resource(uri, body) == [uri |-> uri, body |-> body]

SchemaUri(tableName) == <<"postgres://db", tableName, "schema">>

\* a response of resources/read whose contents[0].text is text
ReadResult(text) == Return([hasText |-> TRUE, text |-> text])

\* schema documents: a JSON array of columns, as the tokens [ name type ... ]
ArtistSchema == <<"[", "artist_id", "integer", "name", "text", "]">>

AlbumSchema == <<"[", "artist_id", "integer", "]">>

\* a document cut short, on which JSON.parse throws
MalformedSchema == <<"[", "track_id", "integer">>

ResourceChoices ==
    { Resource(SchemaUri("artist"), ReadResult(ArtistSchema)),
      Resource(SchemaUri("album"), ReadResult(AlbumSchema)),
      Resource(SchemaUri("track"), ReadResult(MalformedSchema)),
      Resource(SchemaUri("genre"), Return([hasText |-> FALSE, text |-> <<>>])),
      Resource(<<"postgres://db", "artist", "rows">>, ReadResult(ArtistSchema)),
      Resource(SchemaUri("playlist"), Throw(<<"MCP error: resource not found">>)) }

\* uri.endsWith("/schema")
EndsWithSchema(uri) == Len(uri) >= 2 /\ uri[Len(uri)] = "schema"

\* uri.split("/").slice(-2)[0]
TableName(uri) == uri[Len(uri) - 1]

\* JSON.parse of a schema document succeeds
JsonParseOk(text) ==
    /\ Len(text) >= 2
    /\ text[1] = "["
    /\ text[Len(text)] = "]"
    /\ (Len(text) - 2) % 2 = 0

\* the value JSON.parse gives for a schema document
JsonParse(text) ==
    [i \in 1..((Len(text) - 2) \div 2) |->
        [column_name |-> text[2 * i], data_type |-> text[2 * i + 1]]]

\* Map.set: a key that is there keeps its place, a new key goes last
MapSet(cache, key, value) ==
    IF \E i \in 1..Len(cache) : cache[i].table = key
    THEN [i \in 1..Len(cache) |->
            IF cache[i].table = key THEN [table |-> key, columns |-> value] ELSE cache[i]]
    ELSE Append(cache, [table |-> key, columns |-> value])

\* the rows of the foreign key query, as the tokens
\*   [ table_name column_name foreign_table_name foreign_column_name ... ]
RelationshipRows == <<"[", "album", "artist_id", "artist", "artist_id", "]">>

\* executeQuery of detectTableRelationships
RelationshipOutcomes ==
    { Return(ToolResponse(RelationshipRows)),
      Return(ToolResponse(<<"[", "album", "artist_id">>)),
      Return(NoTextResponse),
      Throw(<<"MCP error: permission denied">>) }

RelationshipsParseOk(text) ==
    /\ Len(text) >= 2
    /\ text[1] = "["
    /\ text[Len(text)] = "]"
    /\ (Len(text) - 2) % 4 = 0

\* the description that detectTableRelationships writes for a foreign key
ForeignKeyDescription(foreignTable, foreignColumn) ==
    IF foreignTable = "artist" /\ foreignColumn = "artist_id"
    THEN "Foreign key referencing artist.artist_id"
    ELSE "Foreign key referencing another column"

\* relationships.forEach: the metadata of every row
RelationshipMetadata(text) ==
    { [table |-> text[4 * i - 2], column |-> text[4 * i - 1],
       description |-> ForeignKeyDescription(text[4 * i], text[4 * i + 1]),
       hasForeignKey |-> TRUE, fkTable |-> text[4 * i], fkColumn |-> text[4 * i + 1]] :
      i \in 1..((Len(text) - 2) \div 4) }

\* the resources listed for the session whose questions are followed
ListedResources ==
    IF variant = "A"
    THEN <<Resource(SchemaUri("artist"), ReadResult(ArtistSchema)),
           Resource(SchemaUri("album"), ReadResult(AlbumSchema))>>
    ELSE <<>>

-----------------------------------------------------------------------------
(* The state after connect *)

\* the turns that an earlier question left: answered after one successful query
PriorQuestionTurns(v) ==
    IF v = "A"
    THEN <<Turn("user", <<"q0">>), Turn("assistant", FencedReply),
           Turn("assistant", InterpretationReply)>>
    ELSE <<Turn("assistant", JsonReply("false")),
           Turn("user", ResultsTurnB(<<"[{...}]">>)),
           Turn("assistant", JsonReply("true"))>>

RECURSIVE PriorTurns(_, _)
PriorTurns(v, n) == IF n = 0 THEN <<>> ELSE PriorQuestionTurns(v) \o PriorTurns(v, n - 1)

Init ==
    /\ variant \in {"A", "B"}
    /\ pc = "prompt"
    /\ \E prior \in {0, MaxPrior} :
          /\ appended = PriorTurns(variant, prior)
          /\ chatHistory = AddAll(<<>>, PriorTurns(variant, prior))
    /\ question = <<>>
    /\ attemptCount = 0
    /\ lastError = <<>>
    /\ messages = <<>>
    /\ response = <<>>
    /\ sql = <<>>
    /\ answer = <<>>
    /\ outcome = "none"
    /\ nQuestions = 0
    /\ sessionCalls = 0
    /\ schemaCache =
          IF variant = "A"
          THEN << [table |-> "artist",
                   columns |-> << [column_name |-> "artist_id", data_type |-> "integer"],
                                  [column_name |-> "name", data_type |-> "text"] >>],
                  [table |-> "album",
                   columns |-> << [column_name |-> "artist_id", data_type |-> "integer"] >>] >>
          ELSE <<>>
    /\ columnMetadata =
          IF variant = "A"
          THEN { [table |-> "album", column |-> "artist_id",
                  description |-> "Foreign key referencing artist.artist_id",
                  hasForeignKey |-> TRUE, fkTable |-> "artist", fkColumn |-> "artist_id"] }
          ELSE {}
    /\ questionBase = Len(appended)
    /\ attemptBase = Len(appended)
    /\ toolReply = [kind |-> "none"]
    /\ lineRead = <<>>
    /\ resources = ListedResources
    /\ cursor = Len(resources) + 1
    /\ trace = <<>>

-----------------------------------------------------------------------------
(* processQuestion, from one await to the next *)

\* processQuestion ends with result: the catch at its outermost boundary, then
\* main's loop, which prints a returned answer and prompts again, and whose own
\* catch ends the process on an exception
Finish(result) ==
    LET r == OuterCatch(result)
    IN  /\ outcome' = (IF r.kind = "return" THEN "returned" ELSE "threw")
        /\ answer' = (IF r.kind = "return" THEN r.value ELSE r.message)
        /\ pc' = (IF r.kind = "return" THEN "prompt" ELSE "crashed")

\* the head of the while loop with attemptCount = count: the next attempt up to
\* its model call, or the statement after the loop
LoopHead(history, turns, count, error, events) ==
    IF LoopCondition(count)
    THEN LET first == (variant = "A" /\ count = 0)
             new == IF first THEN turns \o <<Turn("user", question')>> ELSE turns
         IN  /\ messages' = (IF variant = "A"
                             THEN MessagesA(AddAll(history, turns), question', error)
                             ELSE MessagesB(AddAll(history, turns), question'))
             /\ chatHistory' = AddAll(history, new)
             /\ appended' = appended \o new
             /\ attemptBase' = Len(appended) + Len(turns)
             /\ attemptCount' = count
             /\ lastError' = error
             /\ sessionCalls' = sessionCalls + 1
             /\ trace' = events \o <<Call("chat")>>
             /\ pc' = "chat"
             /\ UNCHANGED <<answer, outcome>>
    ELSE /\ chatHistory' = AddAll(history, turns)
         /\ appended' = appended \o turns
         /\ attemptCount' = count
         /\ lastError' = error
         /\ trace' = events
         /\ Finish(Return(Unexpected))
         /\ UNCHANGED <<messages, sessionCalls, attemptBase>>

\* processQuestion returns or throws here, having appended turns
Leave(turns, result, events) ==
    /\ chatHistory' = AddAll(chatHistory, turns)
    /\ appended' = appended \o turns
    /\ trace' = events
    /\ Finish(result)
    /\ UNCHANGED <<attemptCount, lastError, messages, sessionCalls, attemptBase>>

\* a loop that does not wait for processQuestion before it reads the next line
ReadLineWithoutAwait ==
    /\ pc \in {"prompt", "chat", "query", "interpret"}
    /\ \E line \in Inputs :
          /\ lineRead' = line
          /\ IF IsSentinel(line)
             THEN /\ pc' = "exited"
                  /\ UNCHANGED <<variant, resources, cursor, chatHistory, question,
                                 attemptCount, lastError, messages, response, sql, answer,
                                 outcome, nQuestions, sessionCalls, schemaCache, columnMetadata, appended,
                                 questionBase, attemptBase, toolReply, trace>>
             ELSE /\ sessionCalls + MAX_RETRIES + 1 <= MaxSessionCalls
                  /\ question' = line
                  /\ nQuestions' = nQuestions + 1
                  /\ questionBase' = Len(appended)
                  /\ LoopHead(chatHistory, <<>>, 0, <<>>, <<>>)
                  /\ UNCHANGED <<variant, resources, cursor, response, sql, schemaCache,
                                 columnMetadata, toolReply>>

\* main's loop reads a line: the sentinel ends the process, anything else is
\* passed to processQuestion, which runs up to its first model call
ReadLine ==
    /\ pc = "prompt"
    /\ \E line \in Inputs :
          /\ lineRead' = line
          /\ IF IsSentinel(line)
             THEN /\ pc' = "exited"
                  /\ UNCHANGED <<variant, resources, cursor, chatHistory, question,
                                 attemptCount, lastError, messages, response, sql, answer,
                                 outcome, nQuestions, sessionCalls, schemaCache, columnMetadata, appended,
                                 questionBase, attemptBase, toolReply, trace>>
             ELSE /\ sessionCalls + MAX_RETRIES + 1 <= MaxSessionCalls
                  /\ question' = line
                  /\ nQuestions' = nQuestions + 1
                  /\ questionBase' = Len(appended)
                  /\ LoopHead(chatHistory, <<>>, 0, <<>>, <<>>)
                  /\ UNCHANGED <<variant, resources, cursor, response, sql, schemaCache,
                                 columnMetadata, toolReply>>

\* a catch that keeps the first error of the question instead of the last
InnerCatchAKeepsFirstError(turns, message, events) ==
    IF IsLastAttempt(attemptCount)
    THEN /\ chatHistory' = AddAll(chatHistory, turns)
         /\ appended' = appended \o turns
         /\ trace' = events
         /\ lastError' = message
         /\ Finish(Return(Apology(message)))
         /\ UNCHANGED <<attemptCount, messages, sessionCalls, attemptBase>>
    ELSE LoopHead(chatHistory, turns, attemptCount + 1,
                  IF lastError = <<>> THEN message ELSE lastError, events)

\* variant A, catch of the inner try: remember the error, give up on the last
\* attempt, else count the attempt and loop
InnerCatchA(turns, message, events) ==
    IF IsLastAttempt(attemptCount)
    THEN /\ chatHistory' = AddAll(chatHistory, turns)
         /\ appended' = appended \o turns
         /\ trace' = events
         /\ lastError' = message
         /\ Finish(Return(Apology(message)))
         /\ UNCHANGED <<attemptCount, messages, sessionCalls, attemptBase>>
    ELSE LoopHead(chatHistory, turns, attemptCount + 1, message, events)

\* variant A: the first-stage model call ends
ChatReplyA ==
    /\ pc = "chat"
    /\ variant = "A"
    /\ UNCHANGED <<variant, resources, cursor, lineRead,
                   question, nQuestions, schemaCache, columnMetadata,
                   questionBase, toolReply>>
    /\ \E reply \in ChatOutcomes :
          LET content == IF reply.kind = "throw" THEN reply
                         ELSE IF ~reply.value.hasMessage THEN Throw(TypeErrorMessage)
                         ELSE Return(reply.value.content)
              events == Append(trace, Reply("chat", content))
          IN  IF content.kind = "throw"
              THEN /\ Leave(<<>>, content, events)
                   /\ UNCHANGED <<response, sql>>
              ELSE IF ~HasSqlMatch(content.value)
              THEN /\ Leave(<<>>, Return(content.value), events)
                   /\ UNCHANGED <<response, sql>>
              ELSE /\ response' = content.value
                   /\ sql' = Trim(SqlMatchGroup(content.value))
                   /\ trace' = Append(events, Call("query"))
                   /\ pc' = "query"
                   /\ UNCHANGED <<chatHistory, appended, attemptCount, lastError, messages,
                                  answer, outcome, sessionCalls, attemptBase>>

\* variant A: the database call ends
QueryReplyA ==
    /\ pc = "query"
    /\ variant = "A"
    /\ UNCHANGED <<variant, resources, cursor, lineRead,
                   question, response, sql, nQuestions, schemaCache, columnMetadata,
                   questionBase>>
    /\ \E reply \in QueryOutcomes :
          /\ toolReply' = reply
          /\ LET queryResult == executeQuery(reply)
                 events == Append(trace, Reply("query", queryResult))
             IN  IF queryResult.kind = "return"
                 THEN /\ chatHistory' = addToHistory(chatHistory, "assistant", response)
                      /\ appended' = Append(appended, Turn("assistant", response))
                      /\ messages' = messages
                                     \o <<Turn("assistant", response),
                                          Turn("user", ResultsPromptA(queryResult.value))>>
                      /\ trace' = Append(events, Call("interpret"))
                      /\ pc' = "interpret"
                      /\ UNCHANGED <<attemptCount, lastError, answer, outcome, sessionCalls,
                                     attemptBase>>
                 ELSE InnerCatchA(<<>>, ErrorMessage(queryResult), events)

\* an interpretation step that drops the schema cache
InterpretReplyAClearsCache ==
    /\ pc = "interpret"
    /\ variant = "A"
    /\ UNCHANGED <<variant, resources, cursor, lineRead,
                   question, response, sql, nQuestions, columnMetadata,
                   questionBase, toolReply>>
    /\ schemaCache' = <<>>
    /\ \E reply \in InterpretOutcomes :
          LET content == IF reply.kind = "throw" THEN reply
                         ELSE IF ~reply.value.hasMessage THEN Throw(TypeErrorMessage)
                         ELSE Return(reply.value.content)
              events == Append(trace, Reply("interpret", content))
          IN  IF content.kind = "return"
              THEN Leave(<<Turn("assistant", content.value)>>, content, events)
              ELSE InnerCatchA(<<>>, ErrorMessage(content), events)

\* variant A: the interpretation call ends, inside the same inner try
InterpretReplyA ==
    /\ pc = "interpret"
    /\ variant = "A"
    /\ UNCHANGED <<variant, resources, cursor, lineRead,
                   question, response, sql, nQuestions, schemaCache, columnMetadata,
                   questionBase, toolReply>>
    /\ \E reply \in InterpretOutcomes :
          LET content == IF reply.kind = "throw" THEN reply
                         ELSE IF ~reply.value.hasMessage THEN Throw(TypeErrorMessage)
                         ELSE Return(reply.value.content)
              events == Append(trace, Reply("interpret", content))
          IN  IF content.kind = "return"
              THEN Leave(<<Turn("assistant", content.value)>>, content, events)
              ELSE InnerCatchA(<<>>, ErrorMessage(content), events)

\* variant B: queryModelJson ends, then processQuestion up to its database call.
\* (queryModelJson returns an object or throws, so the branch for a null
\* sqlModelResponse is never taken.)
ChatReplyB ==
    /\ pc = "chat"
    /\ variant = "B"
    /\ UNCHANGED <<variant, resources, cursor, lineRead,
                   question, nQuestions, schemaCache, columnMetadata,
                   questionBase, toolReply>>
    /\ \E reply \in ChatOutcomes :
          LET content == IF reply.kind = "throw" THEN reply
                         ELSE IF ~reply.value.hasMessage THEN Throw(TypeErrorMessage)
                         ELSE Return(reply.value.content)
              events == Append(trace, Reply("chat", content))
          IN  IF content.kind = "throw"
              THEN /\ Leave(<<Turn("user", ErrorMessage(content))>>,
                            Return(ErrorMessage(content)), events)
                   /\ UNCHANGED <<response, sql>>
              ELSE IF ~Parses(content.value)
              THEN /\ Leave(<<Turn("assistant", content.value),
                              Turn("user", CouldNotExtract(content.value))>>,
                            Return(CouldNotExtract(content.value)), events)
                   /\ UNCHANGED <<response, sql>>
              ELSE IF JsonSqlModelResponse(content.value).isVerified
              THEN /\ Leave(<<Turn("assistant", content.value)>>,
                            Return(getFormattedAnswer(JsonSqlModelResponse(content.value))),
                            events)
                   /\ UNCHANGED <<response, sql>>
              ELSE /\ chatHistory' = addToHistory(chatHistory, "assistant", content.value)
                   /\ appended' = Append(appended, Turn("assistant", content.value))
                   /\ response' = content.value
                   /\ sql' = JsonSqlModelResponse(content.value).sqlQuery
                   /\ trace' = Append(events, Call("query"))
                   /\ pc' = "query"
                   /\ UNCHANGED <<attemptCount, lastError, messages, answer, outcome,
                                  sessionCalls, attemptBase>>

\* variant B: the database call ends
QueryReplyB ==
    /\ pc = "query"
    /\ variant = "B"
    /\ UNCHANGED <<variant, resources, cursor, lineRead,
                   question, response, sql, nQuestions, schemaCache, columnMetadata,
                   questionBase>>
    /\ \E reply \in QueryOutcomes :
          /\ toolReply' = reply
          /\ LET queryResult == executeQuery(reply)
                 events == Append(trace, Reply("query", queryResult))
             IN  IF queryResult.kind = "return"
                 THEN LoopHead(chatHistory, <<Turn("user", ResultsTurnB(queryResult.value))>>,
                               attemptCount + 1, lastError, events)
                 ELSE IF IsLastAttempt(attemptCount)
                 THEN Leave(<<Turn("user", ErrorMessage(queryResult))>>,
                            Return(Apology(ErrorMessage(queryResult))), events)
                 ELSE LoopHead(chatHistory, <<Turn("user", ErrorMessage(queryResult))>>,
                               attemptCount + 1, lastError, events)

Next ==
    \/ ReadLine
    \/ ChatReplyA
    \/ QueryReplyA
    \/ InterpretReplyA
    \/ ChatReplyB
    \/ QueryReplyB

Spec == Init /\ [][Next]_vars

-----------------------------------------------------------------------------
(* connect of index.ts, from one await to the next *)

\* the session before connect, for every listing of up to MaxResources resources
InitConnect ==
    /\ variant = "A"
    /\ pc = "detect"
    /\ resources \in UNION { [1..n -> ResourceChoices] : n \in 0..MaxResources }
    /\ cursor = 1
    /\ schemaCache = <<>>
    /\ columnMetadata = {}
    /\ appended = <<>>
    /\ chatHistory = <<>>
    /\ question = <<>>
    /\ attemptCount = 0
    /\ lastError = <<>>
    /\ messages = <<>>
    /\ response = <<>>
    /\ sql = <<>>
    /\ answer = <<>>
    /\ outcome = "none"
    /\ nQuestions = 0
    /\ sessionCalls = 0
    /\ questionBase = 0
    /\ attemptBase = 0
    /\ toolReply = [kind |-> "none"]
    /\ lineRead = <<>>
    /\ trace = <<>>

\* detectTableRelationships: the query ends; any error is logged and swallowed
DetectTableRelationships ==
    /\ pc = "detect"
    /\ \E reply \in RelationshipOutcomes :
          LET result == executeQuery(reply)
          IN  columnMetadata' =
                  IF result.kind = "return" /\ RelationshipsParseOk(result.value)
                  THEN RelationshipMetadata(result.value)
                  ELSE columnMetadata
    /\ pc' = "load"
    /\ UNCHANGED <<variant, resources, cursor, lineRead, chatHistory, question, attemptCount,
                   lastError, messages, response, sql, answer, outcome, nQuestions,
                   sessionCalls, schemaCache, appended, questionBase, attemptBase,
                   toolReply, trace>>

\* a parse error that is not caught ends connect
LoadResourceAbortOnParseError ==
    /\ pc = "load"
    /\ cursor <= Len(resources)
    /\ LET resource == resources[cursor]
           schema == resource.body
       IN  IF EndsWithSchema(resource.uri) /\ schema.kind = "throw"
           THEN /\ pc' = "crashed"
                /\ outcome' = "threw"
                /\ answer' = schema.message
                /\ UNCHANGED <<cursor, schemaCache>>
           ELSE IF /\ EndsWithSchema(resource.uri)
                   /\ schema.value.hasText /\ schema.value.text /= <<>>
                   /\ ~JsonParseOk(schema.value.text)
           THEN /\ pc' = "crashed"
                /\ outcome' = "threw"
                /\ answer' = <<"SyntaxError: Unexpected end of JSON input">>
                /\ UNCHANGED <<cursor, schemaCache>>
           ELSE /\ cursor' = cursor + 1
                /\ schemaCache' =
                      IF /\ EndsWithSchema(resource.uri)
                         /\ schema.value.hasText /\ schema.value.text /= <<>>
                      THEN MapSet(schemaCache, TableName(resource.uri),
                                  JsonParse(schema.value.text))
                      ELSE schemaCache
                /\ UNCHANGED <<pc, answer, outcome>>
    /\ UNCHANGED <<variant, resources, chatHistory, question, attemptCount, lastError,
                   messages, response, sql, nQuestions, sessionCalls, columnMetadata,
                   appended, questionBase, attemptBase, toolReply, lineRead, trace>>

\* one iteration of the for loop over the resources: a resource that is not a
\* schema is passed over; resources/read may reject, which ends connect and, in
\* main's catch, the process; a schema without text is passed over; a text that
\* parses is set in the cache, one that does not is logged and skipped
LoadResource ==
    /\ pc = "load"
    /\ cursor <= Len(resources)
    /\ LET resource == resources[cursor]
           schema == resource.body
       IN  IF EndsWithSchema(resource.uri) /\ schema.kind = "throw"
           THEN /\ pc' = "crashed"
                /\ outcome' = "threw"
                /\ answer' = schema.message
                /\ UNCHANGED <<cursor, schemaCache>>
           ELSE /\ cursor' = cursor + 1
                /\ schemaCache' =
                      IF /\ EndsWithSchema(resource.uri)
                         /\ schema.value.hasText /\ schema.value.text /= <<>>
                         /\ JsonParseOk(schema.value.text)
                      THEN MapSet(schemaCache, TableName(resource.uri),
                                  JsonParse(schema.value.text))
                      ELSE schemaCache
                /\ UNCHANGED <<pc, answer, outcome>>
    /\ UNCHANGED <<variant, resources, chatHistory, question, attemptCount, lastError,
                   messages, response, sql, nQuestions, sessionCalls, columnMetadata,
                   appended, questionBase, attemptBase, toolReply, lineRead, trace>>

\* the loop is over: connect returns and main asks for the first line
ConnectReturns ==
    /\ pc = "load"
    /\ cursor > Len(resources)
    /\ pc' = "prompt"
    /\ UNCHANGED <<variant, resources, cursor, lineRead, chatHistory, question, attemptCount,
                   lastError, messages, response, sql, answer, outcome, nQuestions,
                   sessionCalls, schemaCache, columnMetadata, appended, questionBase,
                   attemptBase, toolReply, trace>>

NextConnect ==
    \/ DetectTableRelationships
    \/ LoadResource
    \/ ConnectReturns

SpecConnect == InitConnect /\ [][NextConnect]_vars

-----------------------------------------------------------------------------
(* Properties *)

\* processQuestion has returned to main's loop and no further question is in progress
Returned == pc \in {"prompt", "exited"} /\ outcome = "returned" /\ nQuestions > 0

Replies(op) == { i \in 1..Len(trace) : trace[i].op = op /\ trace[i].dir = "reply" }

\* a first-stage response that leads to a database call: text with a fenced SQL
\* block (variant A), a valid object with isVerified = false (variant B)
IsDraft(e) ==
    /\ e.ok
    /\ IF variant = "A"
       THEN HasSqlMatch(e.text)
       ELSE Parses(e.text) /\ ~JsonSqlModelResponse(e.text).isVerified

AlwaysDrafts == \A i \in Replies("chat") : IsDraft(trace[i])

AlwaysFailsSame ==
    /\ \A i \in Replies("query") : ~trace[i].ok
    /\ \A i, j \in Replies("query") : trace[i].text = trace[j].text

\* C1: in both variants, when every first-stage response of a question leads to a
\* database call and every database call fails with the same error, processQuestion
\* makes exactly MAX_RETRIES + 1 attempts (as many model calls, as many database
\* calls) and returns the apology message, which contains that error text.
C1_ExhaustsRetriesThenApologizes ==
    (Returned /\ AlwaysDrafts /\ AlwaysFailsSame) =>
        /\ attemptCount + 1 = MAX_RETRIES + 1
        /\ modelCalls = MAX_RETRIES + 1
        /\ dbCalls = MAX_RETRIES + 1
        /\ interpretCalls = 0
        /\ \A i \in Replies("query") :
              /\ Contains(answer, trace[i].text)
              /\ answer = <<"I apologize, but I was unable to successfully query the database after ",
                            ToString(MAX_RETRIES + 1), " attempts. The last error was: ">>
                          \o trace[i].text

C1_Witness ==
    /\ Returned /\ AlwaysDrafts /\ AlwaysFailsSame
    /\ variant = "B"
    /\ dbCalls = MAX_RETRIES + 1
    /\ Contains(answer, <<"No text content received from query">>)

\* C2: after every addToHistory call chatHistory holds at most MAX_HISTORY_LENGTH
\* turns, in both variants and whatever the model and the database answer.
C2_HistoryBounded == Len(chatHistory) <= MAX_HISTORY_LENGTH

C2_Witness ==
    /\ nQuestions > 0
    /\ Len(appended) > MAX_HISTORY_LENGTH + 2
    /\ Len(chatHistory) = MAX_HISTORY_LENGTH

\* C3: processQuestion never propagates an exception: whatever the model call and
\* the database call do (return, return malformed data, throw), it returns a text,
\* and main's loop is back at its prompt for the next question, the process alive.
C3_NeverPropagates ==
    /\ outcome /= "threw"
    /\ pc /= "crashed"
    /\ (nQuestions > 0 /\ pc \in {"prompt", "exited"}) =>
          (outcome = "returned" /\ answer \in Seq(STRING))

\* the second question is in progress after the first one met a failed model
\* call (A) or a response without a message (B)
C3_Witness ==
    /\ nQuestions = 2
    /\ pc = "chat"
    /\ outcome = "returned"
    /\ answer \in { <<"An error occurred: ", "fetch failed">>, TypeErrorMessage }

LastEvent == trace[Len(trace)]

\* a text without the opening of a fenced SQL block
NoSqlFence(text) == \A i \in 1..Len(text) : text[i] /= "<fence>sql<nl>"

\* C4: variant A: when the first response of a question has no fenced SQL block,
\* processQuestion returns that response unchanged after exactly one model call
\* and no database call.
C4_NoSqlReturnsProse ==
    (variant = "A" /\ Len(trace) >= 2 /\ trace[2].ok /\ NoSqlFence(trace[2].text)) =>
        /\ Returned
        /\ Len(trace) = 2
        /\ answer = trace[2].text
        /\ modelCalls = 1
        /\ dbCalls = 0
        /\ interpretCalls = 0

C4_Witness ==
    /\ variant = "A"
    /\ Returned
    /\ Len(trace) = 2
    /\ answer = ProseReply

\* the events of the attempt in progress or just ended: those from its model call
AttemptEvents ==
    LET start == CHOOSE i \in 1..Len(trace) :
                    /\ trace[i] = Call("chat")
                    /\ \A j \in (i + 1)..Len(trace) : trace[j] /= Call("chat")
    IN  SubSeq(trace, start, Len(trace))

QueryResultOfAttempt ==
    LET a == AttemptEvents
    IN  a[CHOOSE i \in 1..Len(a) : a[i].op = "query" /\ a[i].dir = "reply"].text

\* C5: variant A: when a response has a fenced SQL block and the database call for
\* it succeeds, the attempt makes that one database call, then exactly one
\* follow-up model call whose message list contains the literal result text, and
\* processQuestion returns the content of the follow-up response.
C5_InterpretsResultOnce ==
    /\ (variant = "A" /\ pc = "interpret") =>
          /\ AttemptEvents =
                <<Call("chat"), Event("chat", "reply", TRUE, response), Call("query"),
                  Event("query", "reply", TRUE, QueryResultOfAttempt), Call("interpret")>>
          /\ \E i \in 1..Len(messages) :
                /\ messages[i].role = "user"
                /\ Contains(messages[i].content, QueryResultOfAttempt)
    /\ (variant = "A" /\ trace /= <<>> /\ LastEvent.op = "interpret"
          /\ LastEvent.dir = "reply" /\ LastEvent.ok) =>
          /\ Returned
          /\ answer = LastEvent.text
          /\ Len(AttemptEvents) = 6
          /\ \E i \in 1..Len(messages) : Contains(messages[i].content, QueryResultOfAttempt)

C5_Witness ==
    /\ variant = "A"
    /\ Returned
    /\ trace = <<Call("chat"), Event("chat", "reply", TRUE, FencedReply), Call("query"),
                 Event("query", "reply", TRUE, <<"[{...}]">>), Call("interpret"),
                 Event("interpret", "reply", TRUE, InterpretationReply)>>
    /\ answer = InterpretationReply
    /\ sql = <<"SELECT * FROM artist LIMIT 5;">>

\* C6: variant B: when the first response of a question is a valid object with
\* isVerified = true, processQuestion returns the formatted answer (the summary and
\* the SQL, without the not-verified note) after one model call and no database call.
C6_VerifiedReturnsAtOnce ==
    (variant = "B" /\ Len(trace) >= 2 /\ trace[2].ok /\ trace[2].text = JsonReply("true")) =>
        /\ Returned
        /\ Len(trace) = 2
        /\ modelCalls = 1
        /\ dbCalls = 0
        /\ answer[1] = "ok"
        /\ Contains(answer, <<"SELECT 1">>)
        /\ ~Contains(answer, <<" (Answer is not verified.)">>)

C6_Witness ==
    /\ variant = "B"
    /\ Returned
    /\ trace = <<Call("chat"), Event("chat", "reply", TRUE, JsonReply("true"))>>
    /\ answer[1] = "ok"

\* a response text that is not a JSON document, or not one of the schema
Unparsable(text) ==
    \/ text[1] /= "{"
    \/ text \in {MissingFieldReply, WrongTypeReply}

\* C7: variant B: a response that is malformed JSON or fails the schema ends
\* processQuestion at once with the parse-error text: it is the last call of the
\* question (no further model call, no database call for it) and the attempt
\* counter is not advanced.
C7_ParseFailureIsTerminal ==
    \A i \in Replies("chat") :
        (variant = "B" /\ trace[i].ok /\ Unparsable(trace[i].text)) =>
            /\ i = Len(trace)
            /\ Returned
            /\ attemptCount = modelCalls - 1
            /\ dbCalls = modelCalls - 1
            /\ SubSeq(answer, 1, Len(answer) - 1) =
                  <<"Could not extract SQL from this response: ">> \o trace[i].text
                  \o <<" because of error: ">>

C7_Witness ==
    /\ variant = "B"
    /\ Returned
    /\ LastEvent = Event("chat", "reply", TRUE, WrongTypeReply)
    /\ attemptCount = 2
    /\ dbCalls = 2

\* processQuestion ended because the attempt ceiling was reached: MAX_RETRIES + 1
\* attempts were made and the last one gave no answer to return
CeilingReached ==
    /\ Returned
    /\ modelCalls = MAX_RETRIES + 1
    /\ \/ LastEvent.op = "query"
       \/ LastEvent.op = "interpret" /\ ~LastEvent.ok

Failures == { i \in 1..Len(trace) : trace[i].dir = "reply" /\ ~trace[i].ok }

Max(S) == CHOOSE x \in S : \A y \in S : x >= y

\* C8: whenever processQuestion ends because the attempt ceiling was reached, it
\* returns the apology message with the last underlying error in it, in both
\* variants and for every mix of successful and failed database executions.
C8_CeilingReturnsApology ==
    CeilingReached =>
        /\ Failures /= {}
        /\ answer = <<"I apologize, but I was unable to successfully query the database after ",
                      ToString(MAX_RETRIES + 1), " attempts. The last error was: ">>
                    \o trace[Max(Failures)].text

\* turns that addToHistory has removed from chatHistory
Evicted == Len(appended) - Len(chatHistory)

\* C9: when an append pushes the history over its maximum length, truncation
\* removes the oldest entries in pairs, and no assistant reply is left at the head
\* of the history without the user turn it answers.
C9_EvictsInPairs ==
    [][ Evicted' /= Evicted =>
            /\ (Evicted' - Evicted) % 2 = 0
            /\ chatHistory'[1].role /= "assistant" ]_vars

LastTurns(turns, n) == SubSeq(turns, Len(turns) - n + 1, Len(turns))

\* C10: chatHistory is always the most recent min(k, MAX_HISTORY_LENGTH) of the k
\* turns appended so far, in the order and with the role and content they were
\* appended with.
C10_HistoryIsNewestSuffix ==
    chatHistory =
        LastTurns(appended,
                  IF Len(appended) < MAX_HISTORY_LENGTH THEN Len(appended)
                  ELSE MAX_HISTORY_LENGTH)

C10_Witness ==
    /\ nQuestions > 0
    /\ Len(appended) = MAX_HISTORY_LENGTH + 2
    /\ Len(chatHistory) = MAX_HISTORY_LENGTH
    /\ chatHistory[1] = appended[3]
    /\ chatHistory[1] /= appended[1]
    /\ chatHistory[MAX_HISTORY_LENGTH] = appended[Len(appended)]

\* the statements of the responses that begin with SELECT
IsSelect(statement) ==
    statement \in {<<"SELECT * FROM artist LIMIT 5;">>, <<"SELECT 1">>}

\* C11: every SQL string that processQuestion hands to the 'query' tool is a
\* SELECT statement; a statement of the model that is not a SELECT is never sent.
C11_OnlySelectIsSent ==
    pc = "query" => IsSelect(sql)

\* the three ways the response of the tool call can fail
ToolFailed(reply) ==
    \/ reply.kind = "throw"
    \/ ~reply.value.hasText
    \/ reply.value.text = <<>>
    \/ reply.value.isError

\* C12: executeQuery throws when the response has no first content item with a
\* non-empty text, when the tool call itself throws, or when the response reports
\* a tool-level error; it returns content[0].text only when none of these holds.
C12_ExecuteQueryThrowsOnEveryFailure ==
    Replies("query") /= {} =>
        LET queryResult == trace[Max(Replies("query"))]
        IN  IF ToolFailed(toolReply)
            THEN ~queryResult.ok
            ELSE queryResult.ok /\ queryResult.text = toolReply.value.text

\* C13: variant A: on every retry attempt k >= 1 the system prompt sent to the
\* model contains the error context of the failure of attempt k - 1 and of no
\* earlier attempt.
C13_RetryPromptCarriesLatestError ==
    (variant = "A" /\ pc = "chat" /\ attemptCount >= 1) =>
        LET prompt == messages[1].content
            previous == trace[Len(trace) - 1]
        IN  /\ messages[1].role = "system"
            /\ previous.dir = "reply" /\ ~previous.ok
            /\ Contains(prompt, <<"<nl>Previous Error Context: ">> \o previous.text \o <<"<nl>">>)
            /\ \A i \in Failures :
                  trace[i].text /= previous.text => ~Contains(prompt, trace[i].text)

C13_Witness ==
    /\ variant = "A"
    /\ pc = "chat"
    /\ attemptCount = 2
    /\ trace[Len(trace) - 1].text = <<"fetch failed">>
    /\ \E i \in Failures : trace[i].text = <<"No text content received from query">>

\* the calls of the current question that have not ended yet
InFlight == { i \in 1..Len(trace) :
                /\ trace[i].dir = "call"
                /\ \A j \in (i + 1)..Len(trace) :
                      ~(trace[j].op = trace[i].op /\ trace[j].dir = "reply") }

\* C14: at most one model call or database call is in flight at any time, and a
\* new question is read only after processQuestion has returned the answer to the
\* previous one, with no call left in flight.
C14_OneOperationAtATime ==
    [][ /\ Cardinality(InFlight)' <= 1
        /\ nQuestions' /= nQuestions =>
              /\ pc = "prompt"
              /\ InFlight = {}
              /\ nQuestions > 0 => outcome = "returned" ]_vars

C14_Witness ==
    /\ nQuestions = 2
    /\ outcome = "returned"
    /\ pc = "interpret"
    /\ Cardinality(InFlight) = 1
    /\ trace[Max(InFlight)] = Call("interpret")

InProgress == pc \in {"chat", "query", "interpret"}

\* the steps that the current processQuestion call can still take at most: three
\* per attempt that is left, less the steps of the current attempt already taken
Remaining ==
    IF InProgress
    THEN 3 * (MAX_RETRIES + 1 - attemptCount)
         - (CASE pc = "chat" -> 0 [] pc = "query" -> 1 [] pc = "interpret" -> 2)
    ELSE 0

\* C16: one processQuestion call makes at most MAX_RETRIES + 1 attempts and at
\* most MAX_RETRIES + 1 database calls, the attempt counter goes up by one on
\* every loop iteration that does not return, and every step of the call brings
\* it nearer to its end, so that it ends when each of its calls returns or throws.
C16_BoundedAttempts ==
    [][ /\ modelCalls' <= MAX_RETRIES + 1
        /\ dbCalls' <= MAX_RETRIES + 1
        /\ (InProgress /\ modelCalls' > modelCalls) => attemptCount' = attemptCount + 1
        /\ InProgress' => modelCalls' = attemptCount' + 1
        /\ InProgress => Remaining' < Remaining
        /\ Remaining' >= 0 ]_vars

C16_Witness ==
    /\ variant = "B"
    /\ pc = "query"
    /\ attemptCount = MAX_RETRIES
    /\ modelCalls = MAX_RETRIES + 1
    /\ dbCalls = MAX_RETRIES + 1
    /\ Remaining = 2

\* C17: a failed model call, the interpretation call of variant A included, ends
\* processQuestion at once with a text that carries the error: no attempt is
\* consumed and no model or database call follows it; only a failed database
\* call is retried.
C17_ModelFailureIsNotRetried ==
    \A i \in Failures :
        trace[i].op \in {"chat", "interpret"} =>
            /\ i = Len(trace)
            /\ Returned
            /\ Contains(answer, trace[i].text)

\* the last first-stage response of the question
ChatReplyOfAttempt == trace[Max(Replies("chat"))]

\* a step that ends an attempt: processQuestion returns or the next attempt begins
AttemptEnds == InProgress /\ (~InProgress' \/ modelCalls' > modelCalls)

\* C18: every attempt that got a response from the model appends one or two
\* turns to the history, and the response as the model wrote it is among them:
\* on first attempts and on retries, whether the attempt ends with no SQL found,
\* with a successful execution or with a failed one.
C18_AttemptAppendsRawOutput ==
    [][ (AttemptEnds /\ ChatReplyOfAttempt'.ok) =>
            LET new == SubSeq(appended', attemptBase + 1, Len(appended'))
            IN  /\ Len(new) \in {1, 2}
                /\ \E k \in 1..Len(new) :
                      new[k] = Turn("assistant", ChatReplyOfAttempt'.text) ]_vars

\* C19: variant B: an attempt whose response is a valid object with isVerified =
\* false runs its sqlQuery exactly once and appends exactly one user turn, with
\* the result text on success and the error text on failure; either way it
\* consumes exactly one attempt, and the message list of the next attempt ends
\* with that turn.
C19_UnverifiedAttemptAppendsOneUserTurn ==
    [][ (variant = "B" /\ pc = "query") =>
            LET new == SubSeq(appended', Len(appended) + 1, Len(appended'))
                queryResult == trace'[Len(trace) + 1]
            IN  /\ dbCalls = attemptCount + 1
                /\ dbCalls' = dbCalls
                /\ sql = <<JsonValue(ChatReplyOfAttempt.text, "sqlQuery")>>
                /\ queryResult.op = "query" /\ queryResult.dir = "reply"
                /\ new = <<Turn("user",
                                IF queryResult.ok
                                THEN <<"Here are the results of the SQL query: ">>
                                     \o queryResult.text
                                ELSE queryResult.text)>>
                /\ IF InProgress'
                   THEN /\ attemptCount' = attemptCount + 1
                        /\ modelCalls' = modelCalls + 1
                        /\ messages'[Len(messages')] = new[1]
                   ELSE attemptCount = MAX_RETRIES ]_vars

C19_Witness ==
    /\ variant = "B"
    /\ pc = "chat"
    /\ attemptCount = 2
    /\ ~trace[Len(trace) - 1].ok
    /\ messages[Len(messages)] = Turn("user", <<"No text content received from query">>)
    /\ messages[Len(messages) - 2]
         = Turn("user", <<"Here are the results of the SQL query: ", "[{...}]">>)

\* a user turn that carries the current question, bare or after USER_PROMPT
CarriesQuestion(turn) ==
    /\ turn.role = "user"
    /\ turn.content \in {question, <<USER_PROMPT>> \o question}

\* no turn appended before the current question began carries the same text
QuestionIsNew == \A i \in 1..questionBase : ~CarriesQuestion(appended[i])

\* C20: in every message list sent to the model, on the first attempt and on
\* retries, the current question is a user turn exactly once: it never comes both
\* through the history and through the per-attempt message list.
C20_QuestionAppearsOnce ==
    (pc \in {"chat", "interpret"} /\ QuestionIsNew) =>
        Cardinality({ i \in 1..Len(messages) : CarriesQuestion(messages[i]) }) = 1

\* C21: every first-stage message list sent to the model is in conversation
\* order: the system prompt first, the history turns in the order they were
\* appended, and every turn that stems from an earlier question before the turn
\* of the current question.
C21_MessagesInConversationOrder ==
    pc = "chat" =>
        /\ messages[1].role = "system"
        /\ \E qpos \in 2..Len(messages) :
              /\ CarriesQuestion(messages[qpos])
              /\ LET hist == SubSeq(messages, 2, qpos - 1)
                             \o SubSeq(messages, qpos + 1, Len(messages))
                 IN  \E lo \in 1..(Len(appended) + 1) :
                        /\ lo + Len(hist) - 1 <= Len(appended)
                        /\ hist = SubSeq(appended, lo, lo + Len(hist) - 1)
                        /\ \A i \in (qpos + 1)..Len(messages) :
                              lo + i - 3 > questionBase

\* the texts by which the error messages of failed attempts are known
ErrorTexts ==
    { <<"fetch failed">>,
      TypeErrorMessage,
      <<"No text content received from query">>,
      <<"MCP error: relation does not exist">>,
      <<"MCP error: cannot execute DELETE in a read-only transaction">>,
      <<" because of error: ">> }

\* C22: the message list of the first attempt of a question, system prompt and
\* history turns, holds no error text of a failed attempt of an earlier
\* question (the history the session starts with holds none).
C22_NoErrorOfEarlierQuestion ==
    (pc = "chat" /\ attemptCount = 0) =>
        \A i \in 1..Len(messages) :
            \A e \in ErrorTexts : ~Contains(messages[i].content, e)

\* the text that getFormattedAnswer puts between the summary and the query
FormattedMark == <<".<nl><nl>    This was obtained using the following query:<nl><nl>    ">>

\* C23: variant B: processQuestion returns a formatted answer, summary plus SQL,
\* only for a response of the model whose isVerified is true, and no answer it
\* returns carries the annotation of an unverified answer.
C23_OnlyVerifiedAnswersAreFormatted ==
    (variant = "B" /\ Returned) =>
        /\ ~Contains(answer, <<" (Answer is not verified.)">>)
        /\ Contains(answer, FormattedMark) =>
              /\ LastEvent.op = "chat" /\ LastEvent.ok
              /\ JsonValue(LastEvent.text, "isVerified") = "true"
              /\ answer[1] = JsonValue(LastEvent.text, "answerSummary")
              /\ Contains(answer, <<JsonValue(LastEvent.text, "sqlQuery")>>)

C23_Witness ==
    /\ variant = "B"
    /\ Returned
    /\ Contains(answer, FormattedMark)
    /\ attemptCount = 2
    /\ dbCalls = 2
    /\ \E i \in Replies("chat") : JsonValue(trace[i].text, "isVerified") = "false"

\* C24: once connect has returned no step changes schemaCache or columnMetadata:
\* reading a line and every step of a processQuestion call, whatever its outcome,
\* leave both as connect left them.
C24_CachesReadOnlyAfterConnect ==
    [][ (pc \in {"prompt", "chat", "query", "interpret"}) =>
            (schemaCache' = schemaCache /\ columnMetadata' = columnMetadata) ]_vars

C24_Witness ==
    /\ variant = "A"
    /\ Returned
    /\ modelCalls = 2
    /\ LastEvent = Reply("interpret", Return(InterpretationReply))
    /\ Len(schemaCache) = 2
    /\ columnMetadata /= {}

\* a listed resource whose uri ends in /schema
IsSchemaResource(resource) == resource.uri[Len(resource.uri)] = "schema"

\* its body was read and is a well-formed document
BodyParsed(resource) ==
    /\ IsSchemaResource(resource)
    /\ resource.body.kind = "return"
    /\ resource.body.value.text \in {ArtistSchema, AlbumSchema}

\* its body was read and is the document cut short
BodyMalformed(resource) ==
    /\ IsSchemaResource(resource)
    /\ resource.body.kind = "return"
    /\ resource.body.value.text = MalformedSchema

CachedTables == { schemaCache[k].table : k \in 1..Len(schemaCache) }

\* C25: a schema body that fails to parse is skipped and does not end the load:
\* of the resources the loop has passed, and so of all of them once connect has
\* returned, every schema resource whose body parsed has its entry in schemaCache,
\* those listed after a malformed one included, and a malformed one has none;
\* connect ends early only when reading a resource fails.
C25_MalformedSchemaIsSkipped ==
    /\ pc \in {"load", "prompt"} =>
          \A i \in 1..(cursor - 1) :
              LET resource == resources[i]
                  tableName == resource.uri[Len(resource.uri) - 1]
              IN  /\ BodyParsed(resource) =>
                        \E k \in 1..Len(schemaCache) :
                            /\ schemaCache[k].table = tableName
                            /\ 2 * Len(schemaCache[k].columns) + 2
                                 = Len(resource.body.value.text)
                  /\ BodyMalformed(resource) => tableName \notin CachedTables
    /\ pc = "prompt" => cursor = Len(resources) + 1
    /\ pc = "crashed" => resources[cursor].body.kind = "throw"

C25_Witness ==
    /\ pc = "prompt"
    /\ Len(resources) = MaxResources
    /\ BodyMalformed(resources[1])
    /\ BodyParsed(resources[2])
    /\ CachedTables = {"artist", "album"}

\* the sentinel of the variant as the prompt names it
SentinelLine == IF variant = "A" THEN <<"exit">> ELSE <<"/exit">>

\* C26: the REPL exits only when the line read is the sentinel of its variant,
\* in whatever case it is typed; every other line is passed to processQuestion
\* as the question.
C26_ExitsOnlyOnSentinel ==
    [][ (pc = "prompt") =>
            IF toLowerCase(lineRead') = SentinelLine
            THEN pc' = "exited"
            ELSE /\ pc' = "chat"
                 /\ question' = lineRead'
                 /\ nQuestions' = nQuestions + 1 ]_vars

====
